---- MODULE Spec2Model ----
(***************************************************************************)
(* Format selection and the session loop of yt4-dw (src/src/main.py).      *)
(*                                                                         *)
(* Python values are modelled as tagged records [t, v]: t is "str", "int"  *)
(* or "None"; a dict key that is missing is the value Absent.  A Python    *)
(* str is a sequence of one-character strings, so that `in`, split,        *)
(* replace, int() and f-string formatting are computed character by        *)
(* character.                                                              *)
(***************************************************************************)
EXTENDS Integers, Sequences, FiniteSets, TLC

(* ------------------------------------------------------------------ *)
(* Bounds of the model                                                 *)
(* ------------------------------------------------------------------ *)
\* longest catalog returned by a lookup
MaxFormats == 2
\* iterations of the session loop that are explored
MaxIter == 2
\* how many dicts of the pool, from its start, the lookups of a session
\* draw their catalogs from
SessionPool == 4
\* how far below and above each limit of a numeric setting the validated
\* configurations reach
Margin == 1

(* ------------------------------------------------------------------ *)
(* Python values                                                       *)
(* ------------------------------------------------------------------ *)
PyStr(s) == [t |-> "str", v |-> s]
PyInt(n) == [t |-> "int", v |-> n]
PyNone == [t |-> "None", v |-> 0]
Absent == [t |-> "absent", v |-> 0]

Max(a, b) == IF a >= b THEN a ELSE b

Min(a, b) == IF a <= b THEN a ELSE b

\* a == b on the values a dict field can hold
PyEq(a, b) == a.t = b.t /\ a.v = b.v

\* dict.get(key, default), default None when omitted
Get(f, key, default) == IF f[key].t = "absent" THEN default ELSE f[key]

(* ------------------------------------------------------------------ *)
(* Python str operations                                               *)
(* ------------------------------------------------------------------ *)
\* s[i:i+len(sub)] == sub
MatchAt(s, sub, i) ==
    /\ i + Len(sub) - 1 <= Len(s)
    /\ \A k \in 1..Len(sub) : s[i + k - 1] = sub[k]

\* sub in s
StrIn(sub, s) == \E i \in 1..(Len(s) + 1) : MatchAt(s, sub, i)

\* the positions where sub occurs in s
Occurrences(s, sub) == {i \in 1..(Len(s) + 1) : MatchAt(s, sub, i)}

\* s.find(sub) + 1, or 0 when sub does not occur
StrFind(s, sub) ==
    LET occ == Occurrences(s, sub)
    IN  IF occ = {} THEN 0 ELSE CHOOSE i \in occ : \A j \in occ : i <= j

\* s.split(sep)[0]
SplitFirst(s, sep) ==
    LET i == StrFind(s, sep)
    IN  IF i = 0 THEN s ELSE SubSeq(s, 1, i - 1)

\* s.replace(c, '') for a one-character c
RemoveChar(s, c) == SelectSeq(s, LAMBDA x : x # c)

Digits == <<"0", "1", "2", "3", "4", "5", "6", "7", "8", "9">>

IsDigit(c) == \E d \in 1..10 : Digits[d] = c

DigitVal(c) == (CHOOSE d \in 1..10 : Digits[d] = c) - 1

RECURSIVE DigitsVal(_)
DigitsVal(s) ==
    IF Len(s) = 0 THEN 0
    ELSE 10 * DigitsVal(SubSeq(s, 1, Len(s) - 1)) + DigitVal(s[Len(s)])

RECURSIVE StripLeft(_)
StripLeft(s) ==
    IF Len(s) > 0 /\ s[1] = " " THEN StripLeft(Tail(s)) ELSE s

RECURSIVE StripRight(_)
StripRight(s) ==
    IF Len(s) > 0 /\ s[Len(s)] = " " THEN StripRight(SubSeq(s, 1, Len(s) - 1)) ELSE s

\* the digits int(s) reads: blanks around the literal are skipped
IntText(s) == StripRight(StripLeft(s))

\* int(s) on a str without sign or underscores succeeds when what is left
\* is one or more digits, and raises ValueError otherwise
IntParses(s) == Len(IntText(s)) > 0 /\ \A i \in 1..Len(IntText(s)) : IsDigit(IntText(s)[i])

\* the value of int(s) when it succeeds
IntValue(s) == DigitsVal(IntText(s))

RECURSIVE IntToStr(_)
\* str(n) for n >= 0, as an f-string formats an int
IntToStr(n) ==
    IF n < 10 THEN <<Digits[n + 1]>>
    ELSE IntToStr(n \div 10) \o <<Digits[(n % 10) + 1]>>

(* ------------------------------------------------------------------ *)
(* String literals of the source                                       *)
(* ------------------------------------------------------------------ *)
VQ1440 == <<"1", "4", "4", "0", "p", " ", "(", "2", "K", " ", "Q", "H", "D", ")">>
VQ1080 == <<"1", "0", "8", "0", "p", " ", "(", "F", "u", "l", "l", " ", "H", "D", ")">>
VQ720 == <<"7", "2", "0", "p", " ", "(", "H", "D", ")">>
VQ480 == <<"4", "8", "0", "p", " ", "(", "S", "D", ")">>
VQ360 == <<"3", "6", "0", "p", " ", "(", "S", "D", ")">>
VQ240 == <<"2", "4", "0", "p", " ", "(", "L", "o", "w", ")">>
VQ144 == <<"1", "4", "4", "p", " ", "(", "V", "e", "r", "y", " ", "L", "o", "w", ")">>
AQWav == <<"A", "u", "d", "i", "o", " ", "O", "n", "l", "y", " ", "(", "W", "A", "V", " ", "H", "I", "G", "H", " ", "-", " ", "L", "o", "s", "s", "l", "e", "s", "s", ")">>
AQM4a == <<"A", "u", "d", "i", "o", " ", "O", "n", "l", "y", " ", "(", "M", "4", "A", " ", "M", "e", "d", "-", "H", "i", "g", "h", " ", "-", " ", "A", "A", "C", " ", "2", "5", "6", "k", "b", "p", "s", ")">>
AQMp3 == <<"A", "u", "d", "i", "o", " ", "O", "n", "l", "y", " ", "(", "M", "P", "3", " ", "3", "2", "0", "k", "b", "p", "s", " ", "-", " ", "H", "i", "g", "h", " ", "Q", "u", "a", "l", "i", "t", "y", ")">>

video_qualities == <<VQ1440, VQ1080, VQ720, VQ480, VQ360, VQ240, VQ144>>

audio_qualities == <<AQWav, AQM4a, AQMp3>>

\* choices = video_qualities + audio_qualities
choices == video_qualities \o audio_qualities

SAudioOnly == <<"A", "u", "d", "i", "o", " ", "O", "n", "l", "y">>
SWAV == <<"W", "A", "V">>
SM4A == <<"M", "4", "A">>
SParen == <<"(">>
SSpaceParen == <<" ", "(">>
SNone == <<"n", "o", "n", "e">>
SUnknown == <<"u", "n", "k", "n", "o", "w", "n">>
ExprWav == <<"b", "e", "s", "t", "a", "u", "d", "i", "o", "[", "e", "x", "t", "=", "w", "a", "v", "]", "/", "b", "e", "s", "t", "a", "u", "d", "i", "o", "/", "b", "e", "s", "t">>
ExprM4a == <<"b", "e", "s", "t", "a", "u", "d", "i", "o", "[", "e", "x", "t", "=", "m", "4", "a", "]", "/", "b", "e", "s", "t", "a", "u", "d", "i", "o", "/", "b", "e", "s", "t">>
ExprMp3 == <<"b", "e", "s", "t", "a", "u", "d", "i", "o", "[", "e", "x", "t", "=", "m", "p", "3", "]", "/", "b", "e", "s", "t", "a", "u", "d", "i", "o", "/", "b", "e", "s", "t">>
FsA == <<"b", "e", "s", "t", "v", "i", "d", "e", "o", "[", "h", "e", "i", "g", "h", "t", "<", "=">>
FsB == <<"]", "[", "e", "x", "t", "=", "m", "p", "4", "]", "+", "b", "e", "s", "t", "a", "u", "d", "i", "o", "[", "e", "x", "t", "=", "m", "4", "a", "]", "/", "b", "e", "s", "t", "[", "h", "e", "i", "g", "h", "t", "<", "=">>
FsC == <<"]", "/", "b", "e", "s", "t">>

\* f"bestvideo[height<={h}][ext=mp4]+bestaudio[ext=m4a]/best[height<={h}]/best"
FallbackExpr(h) == FsA \o IntToStr(h) \o FsB \o IntToStr(h) \o FsC

valid_qualities ==
    << <<"1", "4", "4", "p">>,
       <<"2", "4", "0", "p">>,
       <<"3", "6", "0", "p">>,
       <<"4", "8", "0", "p">>,
       <<"7", "2", "0", "p">>,
       <<"1", "0", "8", "0", "p">>,
       <<"1", "4", "4", "0", "p">> >>

DefaultQuality == VQ1080

(* ------------------------------------------------------------------ *)
(* Comparisons and list.sort                                           *)
(* ------------------------------------------------------------------ *)
\* Results of an expression that may raise: "T", "F", or "E" (TypeError).

\* a < b on numbers; None is not orderable
ValLt(a, b) ==
    IF a.t = "int" /\ b.t = "int"
    THEN (IF a.v < b.v THEN "T" ELSE "F")
    ELSE "E"

\* x < y on tuples of equal length: the first position where the elements
\* differ (by ==) decides, by <
TupleLt(x, y) ==
    LET diff == {i \in 1..Len(x) : ~PyEq(x[i], y[i])}
    IN  IF diff = {} THEN "F"
        ELSE LET i == CHOOSE j \in diff : \A k \in diff : j <= k
             IN  ValLt(x[i], y[i])

\* the sort key: (x.get('height', 0), x.get('tbr', 0), x.get('filesize', 0))
SortKey(x) ==
    << Get(x, "height", PyInt(0)),
       Get(x, "tbr", PyInt(0)),
       Get(x, "filesize", PyInt(0)) >>

KeyLt(x, y) == TupleLt(SortKey(x), SortKey(y))

Rev(s) == [i \in 1..Len(s) |-> s[Len(s) + 1 - i]]

\* a list an expression evaluated to
Sorted(items) == [err |-> FALSE, items |-> items]

\* the expression raised TypeError instead
SortError == [err |-> TRUE, items |-> <<>>]

RECURSIVE RunEnd(_, _, _)
\* list.sort, count_run: the length of the run that starts the list, or -1
\* when a comparison raises; k is the next element to compare
RunEnd(a, k, desc) ==
    IF k > Len(a) THEN Len(a)
    ELSE LET c == KeyLt(a[k], a[k - 1])
         IN  IF c = "E" THEN -1
             ELSE IF (c = "T") = desc THEN RunEnd(a, k + 1, desc)
             ELSE k - 1

RECURSIVE BinSearch(_, _, _, _)
\* list.sort, binarysort: where pivot goes in the sorted a[l..r-1], or 0
\* when a comparison raises
BinSearch(a, pivot, l, r) ==
    LET p == l + ((r - l) \div 2)
        c == KeyLt(pivot, a[p])
        l2 == IF c = "T" THEN l ELSE p + 1
        r2 == IF c = "T" THEN p ELSE r
    IN  IF c = "E" THEN 0
        ELSE IF l2 < r2 THEN BinSearch(a, pivot, l2, r2)
        ELSE l2

\* a with a[start] moved to position pos <= start
InsertAt(a, start, pos) ==
    [i \in 1..Len(a) |->
        IF i < pos THEN a[i]
        ELSE IF i = pos THEN a[start]
        ELSE IF i <= start THEN a[i - 1]
        ELSE a[i]]

RECURSIVE BinarySort(_, _)
\* list.sort, binarysort: a[1..start-1] is sorted, insert the rest
BinarySort(a, start) ==
    IF start > Len(a) THEN Sorted(a)
    ELSE LET pos == BinSearch(a, a[start], 1, start)
         IN  IF pos = 0 THEN SortError
             ELSE BinarySort(InsertAt(a, start, pos), start + 1)

\* the ascending stable sort of a list shorter than 64 elements: one run
\* is counted (and reversed when strictly descending), the rest is
\* inserted by binary search
SortAscending(a) ==
    IF Len(a) < 2 THEN Sorted(a)
    ELSE LET c == KeyLt(a[2], a[1])
             n == RunEnd(a, 3, c = "T")
             run == IF c = "T"
                    THEN Rev(SubSeq(a, 1, n)) \o SubSeq(a, n + 1, Len(a))
                    ELSE a
         IN  IF c = "E" \/ n = -1 THEN SortError
             ELSE BinarySort(run, n + 1)

\* ListSortReverse without the reversal before the sort: equal keys come
\* out in the opposite of list order
ListSortReverseUnstable(items) ==
    LET s == SortAscending(items)
    IN  IF s.err THEN SortError ELSE Sorted(Rev(s.items))

\* items.sort(key=SortKey, reverse=True): the list is reversed, sorted
\* ascending and reversed again, which keeps equal keys in list order
ListSortReverse(items) ==
    LET s == SortAscending(Rev(items))
    IN  IF s.err THEN SortError ELSE Sorted(Rev(s.items))

(* ------------------------------------------------------------------ *)
(* get_best_format_for_quality                                         *)
(* ------------------------------------------------------------------ *)
NoArg == Absent

Msg(m, arg) == [msg |-> m, arg |-> arg]

\* the call returned value; target_height is -1 on the audio path
Returned(value, height, printed) ==
    [ret |-> "return", value |-> value, exc |-> "",
     target_height |-> height, printed |-> printed]

\* the call raised exc
Raised(exc, height, printed) ==
    [ret |-> "raise", value |-> Absent, exc |-> exc,
     target_height |-> height, printed |-> printed]

\* a != 'none' for a = f.get(key): None when the key is missing
NotNoneStr(a) == ~(a.t = "str" /\ a.v = SNone)

\* HeightLe with the default left out: f.get('height') <= target_height
HeightLeNoDefault(f, target_height) ==
    LET h == Get(f, "height", PyNone)
    IN  IF h.t = "int" THEN (IF h.v <= target_height THEN "T" ELSE "F")
        ELSE "E"

\* f.get('height', 0) <= target_height
HeightLe(f, target_height) ==
    LET h == Get(f, "height", PyInt(0))
    IN  IF h.t = "int" THEN (IF h.v <= target_height THEN "T" ELSE "F")
        ELSE "E"

\* the condition of the first list comprehension; `and` stops at the
\* first false operand
MuxedCond(f, target_height) ==
    IF ~NotNoneStr(Get(f, "vcodec", PyNone)) THEN "F"
    ELSE IF ~NotNoneStr(Get(f, "acodec", PyNone)) THEN "F"
    ELSE HeightLe(f, target_height)

\* the condition of the second list comprehension
VideoCond(f, target_height) ==
    IF ~NotNoneStr(Get(f, "vcodec", PyNone)) THEN "F"
    ELSE HeightLe(f, target_height)

\* [f for f in formats if <muxed condition>]: the list, unless evaluating
\* the condition raises
MuxedFormats(formats, target_height) ==
    IF \E i \in 1..Len(formats) : MuxedCond(formats[i], target_height) = "E"
    THEN SortError
    ELSE Sorted(SelectSeq(formats, LAMBDA f : MuxedCond(f, target_height) = "T"))

\* [f for f in formats if <video condition>]
VideoFormats(formats, target_height) ==
    IF \E i \in 1..Len(formats) : VideoCond(formats[i], target_height) = "E"
    THEN SortError
    ELSE Sorted(SelectSeq(formats, LAMBDA f : VideoCond(f, target_height) = "T"))

\* AudioSelection with the WAV branch returning the M4A expression
AudioSelectionWavAsM4a(chosen_quality) ==
    IF StrIn(SWAV, chosen_quality)
    THEN Returned(PyStr(ExprM4a), -1, <<Msg("Selecting best WAV audio quality", NoArg)>>)
    ELSE IF StrIn(SM4A, chosen_quality)
    THEN Returned(PyStr(ExprM4a), -1, <<Msg("Selecting best M4A audio quality", NoArg)>>)
    ELSE Returned(PyStr(ExprMp3), -1, <<Msg("Selecting best MP3 audio quality (320kbps)", NoArg)>>)

\* the branch for 'Audio Only' in chosen_quality; the catalog is only read
\* by a list comprehension whose result is not used
AudioSelection(chosen_quality) ==
    IF StrIn(SWAV, chosen_quality)
    THEN Returned(PyStr(ExprWav), -1, <<Msg("Selecting best WAV audio quality", NoArg)>>)
    ELSE IF StrIn(SM4A, chosen_quality)
    THEN Returned(PyStr(ExprM4a), -1, <<Msg("Selecting best M4A audio quality", NoArg)>>)
    ELSE Returned(PyStr(ExprMp3), -1, <<Msg("Selecting best MP3 audio quality (320kbps)", NoArg)>>)

\* MuxedSelection reporting the first candidate in catalog order while
\* returning the first after the sort
MuxedSelectionReportsUnsorted(video_formats, target_height) ==
    LET s == ListSortReverse(video_formats)
        best_format == s.items[1]
        printed ==
            << Msg("Best available quality details:", NoArg),
               Msg("Resolution", Get(video_formats[1], "height", PyInt(0))),
               Msg("FPS", Get(video_formats[1], "fps", PyInt(0))),
               Msg("Video codec", Get(video_formats[1], "vcodec", PyStr(SUnknown))),
               Msg("Audio codec", Get(video_formats[1], "acodec", PyStr(SUnknown))) >>
    IN  IF s.err THEN Raised("TypeError", target_height, <<>>)
        ELSE IF best_format["format_id"].t = "absent"
        THEN Raised("KeyError", target_height, printed)
        ELSE Returned(best_format["format_id"], target_height, printed)

\* the `if video_formats:` branch: sort, report and return the first
MuxedSelection(video_formats, target_height) ==
    LET s == ListSortReverse(video_formats)
        best_format == s.items[1]
        printed ==
            << Msg("Best available quality details:", NoArg),
               Msg("Resolution", Get(best_format, "height", PyInt(0))),
               Msg("FPS", Get(best_format, "fps", PyInt(0))),
               Msg("Video codec", Get(best_format, "vcodec", PyStr(SUnknown))),
               Msg("Audio codec", Get(best_format, "acodec", PyStr(SUnknown))) >>
    IN  IF s.err THEN Raised("TypeError", target_height, <<>>)
        ELSE IF best_format["format_id"].t = "absent"
        THEN Raised("KeyError", target_height, printed)
        ELSE Returned(best_format["format_id"], target_height, printed)

\* the `else:` branch: report the best video-only format, return the
\* synthesized expression
FallbackSelection(formats, target_height) ==
    LET first == <<Msg("No combined format found, selecting best video and audio separately", NoArg)>>
        vf == VideoFormats(formats, target_height)
        s == ListSortReverse(vf.items)
        printed ==
            IF Len(vf.items) > 0
            THEN first \o <<Msg("Selected video quality", Get(s.items[1], "height", PyInt(0)))>>
            ELSE first
    IN  IF vf.err THEN Raised("TypeError", target_height, first)
        ELSE IF s.err THEN Raised("TypeError", target_height, first)
        ELSE Returned(PyStr(FallbackExpr(target_height)), target_height, printed)

\* the video path once target_height is parsed
VideoSelection(formats, target_height) ==
    LET video_formats == MuxedFormats(formats, target_height)
    IN  IF video_formats.err THEN Raised("TypeError", target_height, <<>>)
        ELSE IF Len(video_formats.items) > 0
        THEN MuxedSelection(video_formats.items, target_height)
        ELSE FallbackSelection(formats, target_height)

\* HeightText without the replace: int(chosen_quality)
HeightTextKeepsP(chosen_quality) == chosen_quality

\* the text handed to int(): chosen_quality.replace('p', '')
HeightText(chosen_quality) == RemoveChar(chosen_quality, "p")

\* get_best_format_for_quality reading the stored quality instead of its
\* argument
get_best_from_config(self, formats, chosen_quality) ==
    IF StrIn(SAudioOnly, self.config.last_used_quality)
    THEN AudioSelection(self.config.last_used_quality)
    ELSE IF ~IntParses(HeightText(self.config.last_used_quality))
    THEN Raised("ValueError", -1, <<>>)
    ELSE VideoSelection(formats, IntValue(HeightText(self.config.last_used_quality)))

\* get_best_format_for_quality falling back to 1080 when int() fails
get_best_defaulting(self, formats, chosen_quality) ==
    IF StrIn(SAudioOnly, chosen_quality)
    THEN AudioSelection(chosen_quality)
    ELSE IF ~IntParses(HeightText(chosen_quality))
    THEN VideoSelection(formats, 1080)
    ELSE VideoSelection(formats, IntValue(HeightText(chosen_quality)))

\* get_best_format_for_quality(self, formats, chosen_quality)
get_best_format_for_quality(self, formats, chosen_quality) ==
    IF StrIn(SAudioOnly, chosen_quality)
    THEN AudioSelection(chosen_quality)
    ELSE IF ~IntParses(HeightText(chosen_quality))
    THEN Raised("ValueError", -1, <<>>)
    ELSE VideoSelection(formats, IntValue(HeightText(chosen_quality)))

\* FormatsAfterCall with the video path sorting the caller's list itself
FormatsSortedInPlace(formats, chosen_quality) ==
    IF StrIn(SAudioOnly, chosen_quality) \/ ~IntParses(HeightText(chosen_quality))
    THEN formats
    ELSE LET s == ListSortReverse(formats)
         IN  IF s.err THEN formats ELSE s.items

\* the caller's list once get_best_format_for_quality is left: each list
\* comprehension builds a new list (audio_formats, video_formats), .sort()
\* reorders that list, and no element is assigned to, so on every path
\* formats holds the same dicts in the same order
FormatsAfterCall(formats, chosen_quality) == formats

(* ------------------------------------------------------------------ *)
(* Catalogs: what the lookup can return                                *)
(* ------------------------------------------------------------------ *)
Fmt(id, vc, ac, h, tbr, fs, fps) ==
    [format_id |-> id, vcodec |-> vc, acodec |-> ac, height |-> h,
     tbr |-> tbr, filesize |-> fs, fps |-> fps]

Avc == PyStr(<<"a", "v", "c", "1">>)

Mp4a == PyStr(<<"m", "p", "4", "a">>)

NoCodec == PyStr(SNone)

Id(s) == PyStr(s)

\* The format dicts catalogs are built from: muxed formats at several
\* heights (with ties on height, on bitrate and on every key), a video-only
\* and an audio-only format, dicts with missing keys, dicts whose numeric
\* fields are None.
FormatPool ==
    << Fmt(Id(<<"2", "2">>), Avc, Mp4a, PyInt(720), PyInt(2), PyInt(2), PyInt(30)),
       Fmt(Id(<<"h", "l", "s">>), Avc, Mp4a, PyNone, PyInt(2), PyNone, PyInt(30)),
       Fmt(Id(<<"0">>), Absent, Absent, Absent, Absent, Absent, Absent),
       Fmt(Id(<<"1", "3", "7">>), Avc, NoCodec, PyInt(1080), PyInt(4), PyInt(4), PyInt(30)),
       Fmt(Id(<<"1", "8">>), Avc, Mp4a, PyInt(360), PyInt(1), PyInt(1), PyInt(30)),
       Fmt(Id(<<"9", "5">>), Avc, Mp4a, PyInt(720), PyInt(2), PyNone, PyInt(30)),
       Fmt(Id(<<"5", "9">>), Avc, Mp4a, PyInt(720), PyInt(2), Absent, PyInt(60)),
       Fmt(Id(<<"2", "3">>), Avc, Mp4a, PyInt(720), PyInt(2), PyInt(2), PyInt(25)),
       Fmt(Id(<<"4", "6">>), Avc, Mp4a, PyInt(1440), PyInt(5), PyInt(5), PyInt(30)),
       Fmt(Id(<<"1", "4", "0">>), NoCodec, Mp4a, PyNone, PyInt(1), PyInt(1), PyNone),
       Fmt(Id(<<"3", "0", "3">>), Avc, NoCodec, PyNone, PyInt(4), PyInt(4), PyInt(30)),
       Fmt(Id(<<"8", "4">>), Avc, Mp4a, PyInt(720), Absent, PyInt(9), PyInt(30)) >>

PoolSize == Len(FormatPool)

\* every list of at most MaxFormats dicts among the first k of the pool
CatalogsOver(k) ==
    UNION { [1..n -> {FormatPool[i] : i \in 1..Min(k, PoolSize)}] : n \in 0..MaxFormats }

\* the catalogs the selector is called on directly
Catalogs == CatalogsOver(PoolSize)

\* the catalogs a lookup of the session returns
SessionCatalogs == CatalogsOver(SessionPool)

\* the quality strings get_best_format_for_quality is called with directly:
\* what the menu step returns, the menu labels themselves, and values that
\* name no menu entry
SBestAudioBest == <<"b", "e", "s", "t", "a", "u", "d", "i", "o", "/", "b", "e", "s", "t">>
Q2160 == <<"2", "1", "6", "0", "p">>
QBest == <<"b", "e", "s", "t">>
QFlac == <<"A", "u", "d", "i", "o", " ", "O", "n", "l", "y", " ", "(", "F", "L", "A", "C", ")">>

Stripped(label) ==
    IF StrIn(SParen, label) THEN SplitFirst(label, SSpaceParen) ELSE label

CallQualities ==
    {Stripped(choices[i]) : i \in 1..Len(choices)}
        \cup {AQWav, AQM4a, AQMp3, Q2160, QBest, QFlac}

(* ------------------------------------------------------------------ *)
(* State                                                               *)
(* ------------------------------------------------------------------ *)
VARIABLES
    pc,              \* where the run loop stands
    iter,            \* iterations of the run loop started so far
    config,          \* self.config
    config_file,     \* what config.json holds
    menu_default,    \* the default handed to the last quality menu
    picked,          \* the label the user picked in that menu
    chosen_quality,  \* run's chosen_quality / the argument of the last call
    cookies,         \* whether get_cookies_path found a file
    video_info,      \* run's video_info
    sel,             \* the last call of get_best_format_for_quality
    dl,              \* the last call of download_video
    it               \* what the current iteration has done

vars == <<pc, iter, config, config_file, menu_default, picked, chosen_quality,
          cookies, video_info, sel, dl, it>>

NoInfo == [t |-> "None", formats |-> <<>>]

Info(formats) == [t |-> "dict", formats |-> formats]

NoSel == [ret |-> "none", value |-> Absent, exc |-> "",
          target_height |-> -1, printed |-> <<>>]

NoDl == [called |-> FALSE, format |-> Absent, postprocessor |-> "",
         merge |-> "", ok |-> FALSE]

FreshIteration == [lookups |-> 0, selections |-> 0, downloads |-> 0,
                   asks |-> 0, success_reported |-> FALSE]

(* ------------------------------------------------------------------ *)
(* Configuration                                                       *)
(* ------------------------------------------------------------------ *)
default_config ==
    [last_used_quality |-> DefaultQuality,
     update_check_interval |-> 24,
     max_retries |-> 3,
     timeout |-> 30]

\* not any(q in last_used_quality for q in valid_qualities)
NoValidQuality(q) ==
    ~\E i \in 1..Len(valid_qualities) : StrIn(valid_qualities[i], q)

\* _validate_config with the lower limit of timeout left out
_validate_config_no_floor(cfg) ==
    [last_used_quality |->
        IF NoValidQuality(cfg.last_used_quality) THEN DefaultQuality
        ELSE cfg.last_used_quality,
     update_check_interval |-> Max(1, Min(168, cfg.update_check_interval)),
     max_retries |-> Max(1, Min(10, cfg.max_retries)),
     timeout |-> Min(300, cfg.timeout)]

\* _validate_config(config): the dict it returns
_validate_config(cfg) ==
    [last_used_quality |->
        IF NoValidQuality(cfg.last_used_quality) THEN DefaultQuality
        ELSE cfg.last_used_quality,
     update_check_interval |-> Max(1, Min(168, cfg.update_check_interval)),
     max_retries |-> Max(1, Min(10, cfg.max_retries)),
     timeout |-> Max(5, Min(300, cfg.timeout))]

\* _validate_config(config): what it leaves in config itself; the copy is
\* shallow, so download_settings is clamped in the caller's dict too
ConfigAfterValidate(cfg) ==
    [cfg EXCEPT !.max_retries = Max(1, Min(10, cfg.max_retries)),
                !.timeout = Max(5, Min(300, cfg.timeout))]

\* save_config(config): the file holds the validated dict
SavedFile(cfg) == _validate_config(cfg)

\* get_format_choice: the value it returns for the label the user picks
get_format_choice(label) == Stripped(label)

\* get_format_choice: self.config once the returned value q is stored
ConfigWithChoice(cfg, q) == [cfg EXCEPT !.last_used_quality = q]

\* _update_config_recursive(default, update): every key of update that
\* default has takes update's value
_update_config_recursive(default, update) ==
    [k \in DOMAIN default |-> IF k \in DOMAIN update THEN update[k] ELSE default[k]]

\* load_config() when config.json exists: the file is merged over
\* default_config, validated, saved and returned
load_config(file) == _validate_config(_update_config_recursive(default_config, file))

Self == [config |-> config]

(* ------------------------------------------------------------------ *)
(* download_video                                                      *)
(* ------------------------------------------------------------------ *)
\* format_id == "bestaudio/best"
IsAudioFormat(format_id) == format_id.t = "str" /\ format_id.v = SBestAudioBest

\* the options download_video builds for format_id, and how the download
\* went
download_video(format_id, ok) ==
    IF IsAudioFormat(format_id)
    THEN [called |-> TRUE, format |-> PyStr(SBestAudioBest),
          postprocessor |-> "FFmpegExtractAudio", merge |-> "None", ok |-> ok]
    ELSE [called |-> TRUE, format |-> format_id,
          postprocessor |-> "FFmpegVideoConvertor", merge |-> "mp4", ok |-> ok]

(* ------------------------------------------------------------------ *)
(* The session: YouTubeDownloader.run                                  *)
(* ------------------------------------------------------------------ *)
\* __init__ with no config.json: load_config saves and returns the default
Init ==
    /\ pc = "choose"
    /\ iter = 1
    /\ config = default_config
    /\ config_file = SavedFile(default_config)
    /\ menu_default = <<>>
    /\ picked = <<>>
    /\ chosen_quality = <<>>
    /\ cookies = FALSE
    /\ video_info = NoInfo
    /\ sel = NoSel
    /\ dl = NoDl
    /\ it = FreshIteration

\* chosen_quality = self.get_format_choice(): the menu is shown with the
\* stored quality as default, the user picks a label, the stripped label
\* is stored in self.config, saved and returned
Choose ==
    /\ pc = "choose"
    /\ \E k \in 1..Len(choices) :
          LET q == get_format_choice(choices[k])
              stored == ConfigWithChoice(config, q)
          IN  /\ picked' = choices[k]
              /\ chosen_quality' = q
              /\ config' = ConfigAfterValidate(stored)
              /\ config_file' = SavedFile(stored)
    /\ menu_default' = config.last_used_quality
    /\ pc' = "cookies"
    /\ UNCHANGED <<iter, cookies, video_info, sel, dl, it>>

\* cookies = self.get_cookies_path(): a cookie file that is found is
\* written into the configuration, which is saved
GetCookiesPath ==
    /\ pc = "cookies"
    /\ \E found \in BOOLEAN :
          /\ cookies' = found
          /\ config' = IF found THEN ConfigAfterValidate(config) ELSE config
          /\ config_file' = IF found THEN SavedFile(config) ELSE config_file
    /\ pc' = "lookup"
    /\ UNCHANGED <<iter, menu_default, picked, chosen_quality, video_info, sel, dl, it>>

\* video_info = self.get_video_info(url, cookies), which returns the
\* catalog; the failure branch of run goes to the continue prompt
LookupOk ==
    /\ pc = "lookup"
    /\ \E c \in SessionCatalogs : video_info' = Info(c)
    /\ pc' = "select"
    /\ it' = [it EXCEPT !.lookups = @ + 1]
    /\ UNCHANGED <<iter, config, config_file, menu_default, picked, chosen_quality,
                   cookies, sel, dl>>

\* LookupFails with run going on to the selection instead of the prompt
LookupFailsThenSelect ==
    /\ pc = "lookup"
    /\ video_info' = NoInfo
    /\ pc' = "select"
    /\ it' = [it EXCEPT !.lookups = @ + 1]
    /\ UNCHANGED <<iter, config, config_file, menu_default, picked, chosen_quality,
                   cookies, sel, dl>>

\* get_video_info returned None (playlist, live broadcast, or an exception
\* it caught): run prints the failure and goes to the continue prompt
LookupFails ==
    /\ pc = "lookup"
    /\ video_info' = NoInfo
    /\ pc' = "ask"
    /\ it' = [it EXCEPT !.lookups = @ + 1]
    /\ UNCHANGED <<iter, config, config_file, menu_default, picked, chosen_quality,
                   cookies, sel, dl>>

\* format_id = self.get_best_format_for_quality(formats, chosen_quality);
\* an exception leaves run and ends the program in main
Select ==
    /\ pc = "select"
    /\ sel' = get_best_format_for_quality(Self, video_info.formats, chosen_quality)
    /\ video_info' = [video_info EXCEPT !.formats = FormatsAfterCall(@, chosen_quality)]
    /\ pc' = IF sel'.ret = "raise" THEN "crashed" ELSE "download"
    /\ it' = [it EXCEPT !.selections = @ + 1]
    /\ UNCHANGED <<iter, config, config_file, menu_default, picked, chosen_quality,
                   cookies, dl>>

\* Download with a failed download attempted once more before the prompt
DownloadRetried ==
    /\ pc = "download"
    /\ it.downloads < 2
    /\ \E ok \in BOOLEAN :
          /\ dl' = download_video(sel.value, ok)
          /\ pc' = IF ok THEN "ask" ELSE "download"
    /\ it' = [it EXCEPT !.downloads = @ + 1, !.success_reported = TRUE]
    /\ UNCHANGED <<iter, config, config_file, menu_default, picked, chosen_quality,
                   cookies, video_info, sel>>

\* self.download_video(url, format_id, cookies), which catches a failed
\* download, and the completion messages run prints after it
Download ==
    /\ pc = "download"
    /\ \E ok \in BOOLEAN : dl' = download_video(sel.value, ok)
    /\ pc' = "ask"
    /\ it' = [it EXCEPT !.downloads = @ + 1, !.success_reported = TRUE]
    /\ UNCHANGED <<iter, config, config_file, menu_default, picked, chosen_quality,
                   cookies, video_info, sel>>

\* ask_continue() == 'Yes': the next iteration starts
ContinueYes ==
    /\ pc = "ask"
    /\ iter < MaxIter
    /\ iter' = iter + 1
    /\ pc' = "choose"
    \* the locals of the iteration that ended are all assigned again
    \* before they are read
    /\ it' = FreshIteration
    /\ video_info' = NoInfo
    /\ sel' = NoSel
    /\ dl' = NoDl
    /\ UNCHANGED <<config, config_file, menu_default, picked, chosen_quality, cookies>>

\* any other answer: break, the exit message is shown
ContinueNo ==
    /\ pc = "ask"
    /\ pc' = "done"
    /\ it' = [it EXCEPT !.asks = @ + 1]
    /\ UNCHANGED <<iter, config, config_file, menu_default, picked, chosen_quality,
                   cookies, video_info, sel, dl>>

Next ==
    \/ Choose
    \/ GetCookiesPath
    \/ LookupOk
    \/ LookupFails
    \/ Select
    \/ Download
    \/ ContinueYes
    \/ ContinueNo

Spec == Init /\ [][Next]_vars

\* the places of run where it waits for a call to come back: the quality
\* menu, get_cookies_path, get_video_info, get_best_format_for_quality and
\* download_video
Calls == {"choose", "cookies", "lookup", "select", "download"}

\* control leaves the call at p
Leaves(p) == pc = p /\ pc' \in ({"ask", "crashed"} \cup Calls) \ {p}

\* The session when every call run makes comes back, by returning or by
\* raising: run does not stay at a call forever.  (How long the user takes
\* at the continue prompt is left open.)
FairSpec == Init /\ [][Next]_vars /\ \A p \in Calls : WF_pc(Leaves(p))

(* ------------------------------------------------------------------ *)
(* Direct calls of the selector on a downloader that holds a catalog   *)
(* ------------------------------------------------------------------ *)
CallInit ==
    /\ pc = "call"
    /\ iter = 1
    /\ config = default_config
    /\ config_file = SavedFile(default_config)
    /\ menu_default = <<>>
    /\ picked = <<>>
    /\ chosen_quality = <<>>
    /\ cookies = FALSE
    /\ video_info \in {Info(c) : c \in Catalogs}
    /\ sel = NoSel
    /\ dl = NoDl
    /\ it = FreshIteration

\* get_best_format_for_quality(formats, q) on the catalog held
Call ==
    /\ pc = "call"
    /\ \E q \in CallQualities :
          /\ chosen_quality' = q
          /\ sel' = get_best_format_for_quality(Self, video_info.formats, q)
          /\ video_info' = [video_info EXCEPT !.formats = FormatsAfterCall(@, q)]
    /\ UNCHANGED <<pc, iter, config, config_file, menu_default, picked, cookies,
                   dl, it>>

\* get_format_choice() between two calls: the configuration changes
CallChoose ==
    /\ pc = "call"
    /\ \E k \in 1..Len(choices) :
          LET stored == ConfigWithChoice(config, get_format_choice(choices[k]))
          IN  /\ config' = ConfigAfterValidate(stored)
              /\ config_file' = SavedFile(stored)
    /\ UNCHANGED <<pc, iter, menu_default, picked, chosen_quality, cookies,
                   video_info, sel, dl, it>>

CallNext == Call

CallSpec == CallInit /\ [][CallNext]_vars

(* ------------------------------------------------------------------ *)
(* Repeated calls, with the configuration changing in between          *)
(* ------------------------------------------------------------------ *)
RepeatInit ==
    /\ pc = "call"
    /\ iter = 1
    /\ config = default_config
    /\ config_file = SavedFile(default_config)
    /\ menu_default = <<>>
    /\ picked = <<>>
    /\ chosen_quality = <<>>
    /\ cookies = FALSE
    /\ video_info \in {Info(c) : c \in SessionCatalogs}
    /\ sel = NoSel
    /\ dl = NoDl
    /\ it = FreshIteration

RepeatNext == Call \/ CallChoose

RepeatSpec == RepeatInit /\ [][RepeatNext]_vars

(* ------------------------------------------------------------------ *)
(* Direct calls on catalogs with entries that lack a format_id         *)
(* ------------------------------------------------------------------ *)
\* The dicts of such catalogs: muxed entries without the key format_id,
\* one ranking above and one below the well-formed muxed entries, next to
\* well-formed muxed and video-only entries.
MalformedPool ==
    << Fmt(Absent, Avc, Mp4a, PyInt(720), PyInt(3), PyInt(3), PyInt(30)),
       Fmt(Id(<<"2", "2">>), Avc, Mp4a, PyInt(720), PyInt(2), PyInt(2), PyInt(30)),
       Fmt(Id(<<"1", "8">>), Avc, Mp4a, PyInt(360), PyInt(1), PyInt(1), PyInt(30)),
       Fmt(Absent, Avc, Mp4a, PyInt(240), PyInt(1), PyInt(1), PyInt(30)),
       Fmt(Id(<<"1", "3", "7">>), Avc, NoCodec, PyInt(1080), PyInt(4), PyInt(4), PyInt(30)) >>

MalformedCatalogs ==
    UNION { [1..n -> {MalformedPool[i] : i \in 1..Len(MalformedPool)}] : n \in 0..MaxFormats }

MalformedInit ==
    /\ pc = "call"
    /\ iter = 1
    /\ config = default_config
    /\ config_file = SavedFile(default_config)
    /\ menu_default = <<>>
    /\ picked = <<>>
    /\ chosen_quality = <<>>
    /\ cookies = FALSE
    /\ video_info \in {Info(c) : c \in MalformedCatalogs}
    /\ sel = NoSel
    /\ dl = NoDl
    /\ it = FreshIteration

MalformedNext == Call

MalformedSpec == MalformedInit /\ [][MalformedNext]_vars

(* ------------------------------------------------------------------ *)
(* The quality menu across restarts of the program                     *)
(* ------------------------------------------------------------------ *)
\* The program is left after the quality menu and started again: __init__
\* sets self.config = self.load_config(), which reads config.json and
\* saves what it validated; run then reaches the menu of its first
\* iteration.  picked and menu_default keep what the previous run saw.
Restart ==
    /\ pc = "cookies"
    /\ config' = load_config(config_file)
    /\ config_file' = SavedFile(load_config(config_file))
    /\ pc' = "choose"
    /\ chosen_quality' = <<>>
    /\ UNCHANGED <<iter, menu_default, picked, cookies, video_info, sel, dl, it>>

RestoreNext == Choose \/ Restart

RestoreSpec == Init /\ [][RestoreNext]_vars

(* ------------------------------------------------------------------ *)
(* Validation of a configuration holding any integers                  *)
(* ------------------------------------------------------------------ *)
\* the integers within Margin of the limits lo and hi
Around(lo, hi) == ((lo - Margin)..(lo + Margin)) \cup ((hi - Margin)..(hi + Margin))

\* the configurations handed to the validation: a menu label, a stored
\* video value or a stored audio value, with every numeric setting below,
\* at, inside and above its limits
ConfigInputs ==
    [last_used_quality : {DefaultQuality, <<"7", "2", "0", "p">>, SAudioOnly},
     update_check_interval : Around(1, 168),
     max_retries : Around(1, 10),
     timeout : Around(5, 300)]

ValidateInit ==
    /\ pc = "validate"
    /\ iter = 1
    /\ config \in ConfigInputs
    /\ config_file = SavedFile(default_config)
    /\ menu_default = <<>>
    /\ picked = <<>>
    /\ chosen_quality = <<>>
    /\ cookies = FALSE
    /\ video_info = NoInfo
    /\ sel = NoSel
    /\ dl = NoDl
    /\ it = FreshIteration

\* save_config(self.config): _validate_config(config) is written to
\* config.json; the validation clamps download_settings in config itself
save_config ==
    /\ pc \in {"validate", "validated"}
    /\ config_file' = SavedFile(config)
    /\ config' = ConfigAfterValidate(config)
    /\ pc' = "validated"
    /\ UNCHANGED <<iter, menu_default, picked, chosen_quality, cookies, video_info,
                   sel, dl, it>>

ValidateNext == save_config

ValidateSpec == ValidateInit /\ [][ValidateNext]_vars

(* ------------------------------------------------------------------ *)
(* Vocabulary of the properties                                        *)
(* ------------------------------------------------------------------ *)
\* the quality ladder, in menu order
Ladder == <<1440, 1080, 720, 480, 360, 240, 144>>

\* the target string of a rung: "<height>p"
TargetText(h) == IntToStr(h) \o <<"p">>

\* the container each audio menu entry names, in menu order
Container == << <<"w", "a", "v">>, <<"m", "4", "a">>, <<"m", "p", "3">> >>

Called == sel.ret # "none"

Formats == video_info.formats

\* a numeric field as the specification reads it: 0 when missing or invalid
Num(v) == IF v.t = "int" THEN v.v ELSE 0

\* the record carries the stream: its codec is not the sentinel 'none'
HasStream(r, key) == ~(r[key].t = "str" /\ r[key].v = SNone)

\* the muxed filter for ceiling h
Qualifies(r, h) ==
    HasStream(r, "vcodec") /\ HasStream(r, "acodec") /\ Num(r.height) <= h

\* (height, total bitrate, filesize) of r is lexicographically >= that of s
RankGe(r, s) ==
    \/ Num(r.height) > Num(s.height)
    \/ /\ Num(r.height) = Num(s.height)
       /\ \/ Num(r.tbr) > Num(s.tbr)
          \/ Num(r.tbr) = Num(s.tbr) /\ Num(r.filesize) >= Num(s.filesize)

RECURSIVE Alternatives(_)
\* the alternatives of a format expression, separated by "/"
Alternatives(e) ==
    LET i == StrFind(e, <<"/">>)
    IN  IF i = 0 THEN <<e>>
        ELSE <<SubSeq(e, 1, i - 1)>> \o Alternatives(SubSeq(e, i + 1, Len(e)))

\* the expression the fallback branch is specified to return for ceiling h
ExpectedFallback(h) ==
    <<"b", "e", "s", "t", "v", "i", "d", "e", "o", "[", "h", "e", "i", "g", "h", "t", "<", "=">> \o IntToStr(h)
        \o <<"]", "[", "e", "x", "t", "=", "m", "p", "4", "]", "+", "b", "e", "s", "t", "a", "u", "d", "i", "o", "[", "e", "x", "t", "=", "m", "4", "a", "]", "/", "b", "e", "s", "t", "[", "h", "e", "i", "g", "h", "t", "<", "=">> \o IntToStr(h)
        \o <<"]", "/", "b", "e", "s", "t">>

\* a catalog with 0 written into every missing height, tbr and filesize
ZeroFilled(formats) ==
    [i \in 1..Len(formats) |->
        [k \in DOMAIN formats[i] |->
            IF k \in {"height", "tbr", "filesize"} /\ formats[i][k].t = "absent"
            THEN PyInt(0)
            ELSE formats[i][k]]]

MenuStrings == {choices[i] : i \in 1..Len(choices)}

(* ------------------------------------------------------------------ *)
(* Properties                                                          *)
(* ------------------------------------------------------------------ *)
\* C1: whenever the catalog holds a record with a video codec, an audio
\* codec and height <= H, the call for rung H returns the format_id of a
\* qualifying record whose (height, tbr, filesize) is the maximum among
\* the qualifying records.
C1_MuxedPreference ==
    \A k \in 1..Len(Ladder) :
        ( /\ Called
          /\ chosen_quality = TargetText(Ladder[k])
          /\ \E i \in 1..Len(Formats) : Qualifies(Formats[i], Ladder[k]) )
        => /\ sel.ret = "return"
           /\ \E i \in 1..Len(Formats) :
                 /\ Qualifies(Formats[i], Ladder[k])
                 /\ PyEq(Formats[i].format_id, sel.value)
                 /\ \A j \in 1..Len(Formats) :
                       Qualifies(Formats[j], Ladder[k]) => RankGe(Formats[i], Formats[j])

\* C2: whenever no record of the catalog has both codecs and height <= H,
\* the call for rung H returns the synthesized expression for H, which is
\* no format_id of the catalog.
C2_FallbackOnly ==
    \A k \in 1..Len(Ladder) :
        ( /\ Called
          /\ chosen_quality = TargetText(Ladder[k])
          /\ ~\E i \in 1..Len(Formats) : Qualifies(Formats[i], Ladder[k]) )
        => /\ sel.ret = "return"
           /\ PyEq(sel.value, PyStr(ExpectedFallback(Ladder[k])))
           /\ \A i \in 1..Len(Formats) : ~PyEq(Formats[i].format_id, sel.value)

\* C3: for each audio menu entry, whatever the catalog, the call returns
\* 'bestaudio[ext=f]/bestaudio/best' with f the entry's container: the
\* first alternative names f exactly once and is followed by the generic
\* alternatives 'bestaudio' and 'best'.
C3_AudioKind ==
    \A a \in 1..Len(audio_qualities) :
        (Called /\ chosen_quality = audio_qualities[a])
        => /\ sel.ret = "return"
           /\ sel.value.t = "str"
           /\ Alternatives(sel.value.v) =
                 << <<"b", "e", "s", "t", "a", "u", "d", "i", "o", "[", "e", "x", "t", "=">> \o Container[a] \o <<"]">>,
                    <<"b", "e", "s", "t", "a", "u", "d", "i", "o">>,
                    <<"b", "e", "s", "t">> >>
           /\ Cardinality(Occurrences(Alternatives(sel.value.v)[1], Container[a])) = 1

\* C3 witness: the WAV entry was requested on a non-empty catalog.
C3_Witness ==
    /\ Called
    /\ chosen_quality = AQWav
    /\ Len(Formats) > 0
    /\ sel.ret = "return"

\* C4: after the menu step and the selection, the expression's first
\* alternative filters the container named in the label the user picked.
C4_AudioLabelEndToEnd ==
    \A a \in 1..Len(audio_qualities) :
        (sel.ret = "return" /\ picked = audio_qualities[a])
        => /\ sel.value.t = "str"
           /\ StrIn(<<"e", "x", "t", "=">> \o Container[a], Alternatives(sel.value.v)[1])

\* C5: for every catalog and every valid target (a rung of the ladder or
\* an audio menu entry) the call returns a non-empty expression.
C5_Totality ==
    ( /\ Called
      /\ \/ \E k \in 1..Len(Ladder) : chosen_quality = TargetText(Ladder[k])
         \/ \E a \in 1..Len(audio_qualities) : chosen_quality = audio_qualities[a] )
    => /\ sel.ret = "return"
       /\ sel.value.t = "str"
       /\ Len(sel.value.v) > 0

\* C6: a record whose height, tbr or filesize is missing is filtered and
\* ranked as if the field were 0: the call gives the very result (value,
\* report, or failure) it gives on the catalog with 0 written in.
C6_MissingAsZero ==
    Called => sel = get_best_format_for_quality(Self, ZeroFilled(Formats), chosen_quality)

\* C6 witness: a record without filesize was ranked against a record tied
\* with it on height and bitrate, and the call returned the latter.
C6_Witness ==
    /\ Called
    /\ chosen_quality = TargetText(720)
    /\ Len(Formats) = 2
    /\ Formats[1].filesize.t = "absent"
    /\ Formats[1].height = Formats[2].height
    /\ Formats[1].tbr = Formats[2].tbr
    /\ Formats[2].filesize.t = "int"
    /\ sel.ret = "return"
    /\ PyEq(sel.value, Formats[2].format_id)

\* C7: for each of the 7 video labels, the menu step returns "<n>p" and
\* the selection parses it without error to max_height n, the label's
\* number, a rung of the ladder.
C7_VideoLabelParsing ==
    \A k \in 1..Len(video_qualities) :
        (picked = video_qualities[k])
        => /\ chosen_quality = TargetText(Ladder[k])
           /\ Called => (sel.exc # "ValueError" /\ sel.target_height = Ladder[k])

\* C7 witness: the label '144p (Very Low)' was picked and the selection
\* returned with ceiling 144.
C7_Witness ==
    /\ picked = VQ144
    /\ sel.ret = "return"
    /\ sel.target_height = 144

\* C8: the last_used_quality held by the configuration, and the default
\* offered by the quality menu, is one of the 10 menu strings.
C8_StoredQualityIsMenuString ==
    /\ config.last_used_quality \in MenuStrings
    /\ menu_default # <<>> => menu_default \in MenuStrings

C11_SessionOrdering ==
    /\ it.selections > 0 => (it.lookups = 1 /\ video_info.t = "dict")
    /\ sel.ret # "none" => it.selections = 1
    /\ it.downloads > 0 =>
          /\ it.selections = 1
          /\ sel.ret = "return"
          /\ dl.called
          /\ PyEq(dl.format, sel.value)
    /\ dl.called => it.downloads = 1
    /\ (it.lookups > 0 /\ video_info.t = "None") =>
          (it.selections = 0 /\ it.downloads = 0 /\ sel.ret = "none" /\ ~dl.called)

\* C11 witness: the download was handed a format_id of the catalog, which
\* the selection of this iteration returned after a successful lookup.
C11_Witness ==
    /\ pc = "ask"
    /\ it.lookups = 1
    /\ it.selections = 1
    /\ it.downloads = 1
    /\ \E i \in 1..Len(Formats) : PyEq(dl.format, Formats[i].format_id)

\* a record of which height, tbr or filesize is present but None
HasNullNumber(r) == \E k \in {"height", "tbr", "filesize"} : r[k].t = "None"

\* a catalog with 0 written over every None height, tbr and filesize
NullAsZero(formats) ==
    [i \in 1..Len(formats) |->
        [k \in DOMAIN formats[i] |->
            IF k \in {"height", "tbr", "filesize"} /\ formats[i][k].t = "None"
            THEN PyInt(0)
            ELSE formats[i][k]]]

\* C12: on a catalog holding records whose height, tbr or filesize is None,
\* the call for a rung of the ladder does not raise and returns what it
\* returns on the catalog with 0 in place of each None.
C12_NullNumberIsZero ==
    \A k \in 1..Len(Ladder) :
        ( /\ Called
          /\ chosen_quality = TargetText(Ladder[k])
          /\ \E i \in 1..Len(Formats) : HasNullNumber(Formats[i]) )
        => /\ sel.ret = "return"
           /\ PyEq(sel.value,
                   get_best_format_for_quality(Self, NullAsZero(Formats), chosen_quality).value)

\* the entries of a catalog that have a format_id
WellFormed(formats) == SelectSeq(formats, LAMBDA f : f.format_id.t # "absent")

\* C13: on a catalog holding entries without format_id, the call for a rung
\* of the ladder does not raise and returns what it returns on the catalog
\* without those entries: the best well-formed muxed entry, or the
\* synthesized expression.
C13_MalformedDropped ==
    \A k \in 1..Len(Ladder) :
        ( /\ Called
          /\ chosen_quality = TargetText(Ladder[k])
          /\ \E i \in 1..Len(Formats) : Formats[i].format_id.t = "absent" )
        => /\ sel.ret = "return"
           /\ PyEq(sel.value,
                   get_best_format_for_quality(Self, WellFormed(Formats), chosen_quality).value)

\* the record names a codec for the stream: the field is there and is not
\* the sentinel 'none'
CarriesStream(r, key) == r[key].t = "str" /\ r[key].v # SNone

\* C14: the record whose format_id the call returns for a rung of the
\* ladder names a video codec and an audio codec; a record with either
\* field missing is never the one returned.
C14_CodecPresence ==
    \A k \in 1..Len(Ladder) :
        (Called /\ chosen_quality = TargetText(Ladder[k]) /\ sel.ret = "return")
        => \A i \in 1..Len(Formats) :
              PyEq(Formats[i].format_id, sel.value)
              => (CarriesStream(Formats[i], "vcodec") /\ CarriesStream(Formats[i], "acodec"))

\* the positions of the muxed candidates for ceiling h whose (height, tbr,
\* filesize) no other candidate exceeds
TopRanked(formats, h) ==
    {i \in 1..Len(formats) :
        /\ Qualifies(formats[i], h)
        /\ \A j \in 1..Len(formats) : Qualifies(formats[j], h) => RankGe(formats[i], formats[j])}

\* C15: when the call for a rung of the ladder returns and muxed candidates
\* exist, the format_id returned is that of the earliest catalog position
\* among the candidates of highest (height, tbr, filesize).
C15_StableTieBreak ==
    \A k \in 1..Len(Ladder) :
        ( /\ Called
          /\ chosen_quality = TargetText(Ladder[k])
          /\ sel.ret = "return"
          /\ TopRanked(Formats, Ladder[k]) # {} )
        => LET top == TopRanked(Formats, Ladder[k])
               first == CHOOSE i \in top : \A j \in top : i <= j
           IN  PyEq(sel.value, Formats[first].format_id)

\* C15 witness: a catalog of two different muxed records equal on height,
\* tbr and filesize, and the call returned the one at the front.
C15_Witness ==
    /\ Called
    /\ chosen_quality = TargetText(720)
    /\ Len(Formats) = 2
    /\ ~PyEq(Formats[1].format_id, Formats[2].format_id)
    /\ SortKey(Formats[1]) = SortKey(Formats[2])
    /\ Formats[1].height = PyInt(720)
    /\ sel.ret = "return"
    /\ PyEq(sel.value, Formats[1].format_id)

\* the menu entries a stored quality names: the entry it is equal to, or
\* the entry whose text before " (" it is
MenuEntries(q) ==
    {i \in 1..Len(choices) : choices[i] = q \/ Stripped(choices[i]) = q}

\* C16: once the label the user picked has been saved and the
\* configuration loaded again, last_used_quality names the picked menu
\* entry and no other; after an audio pick it is an 'Audio Only' value.
C16_QualityRoundTrip ==
    (pc = "choose" /\ picked # <<>>)
    => /\ MenuEntries(config.last_used_quality) = {i \in 1..Len(choices) : choices[i] = picked}
       /\ StrIn(SAudioOnly, picked) => StrIn(SAudioOnly, config.last_used_quality)

\* what a report line shows for a field: the record's value, or the
\* placeholder when the record has no such field
Shown(r, key, placeholder) == IF r[key].t = "absent" THEN placeholder ELSE r[key]

\* the lines reported for a video target
Reported(line) == {sel.printed[n].arg : n \in {m \in 1..Len(sel.printed) : sel.printed[m].msg = line}}

\* C17: when the call for a rung of the ladder returns a format_id of the
\* catalog, exactly one resolution, fps, video codec and audio codec is
\* reported, each the value of that field in the record bearing the
\* returned format_id.
C17_ReporterConsistency ==
    \A k \in 1..Len(Ladder) :
        ( /\ Called
          /\ chosen_quality = TargetText(Ladder[k])
          /\ sel.ret = "return" )
        => \A i \in 1..Len(Formats) :
              PyEq(Formats[i].format_id, sel.value)
              => /\ Len(sel.printed) = 5
                 /\ Reported("Resolution") = {Shown(Formats[i], "height", PyInt(0))}
                 /\ Reported("FPS") = {Shown(Formats[i], "fps", PyInt(0))}
                 /\ Reported("Video codec") = {Shown(Formats[i], "vcodec", PyStr(<<"u", "n", "k", "n", "o", "w", "n">>))}
                 /\ Reported("Audio codec") = {Shown(Formats[i], "acodec", PyStr(<<"u", "n", "k", "n", "o", "w", "n">>))}

\* C17 witness: the returned record stands second in the catalog, behind
\* a muxed candidate of another height and frame rate, and its own height
\* and frame rate are the ones reported.
C17_Witness ==
    /\ Called
    /\ chosen_quality = TargetText(720)
    /\ Len(Formats) = 2
    /\ Qualifies(Formats[1], 720)
    /\ Formats[1].height # Formats[2].height
    /\ Formats[2].fps = PyInt(60)
    /\ sel.ret = "return"
    /\ PyEq(sel.value, Formats[2].format_id)
    /\ Reported("FPS") = {PyInt(60)}

C19_NoRetry ==
    /\ it.lookups <= 1
    /\ it.downloads <= 1
    /\ (it.lookups = 1 /\ video_info.t = "None") =>
          (pc \in {"ask", "done"} /\ it.downloads = 0)
    /\ (dl.called /\ ~dl.ok) => pc \in {"ask", "done"}

\* C19 witness: the download of the second iteration failed and the loop
\* stands at the prompt, one lookup and one download done.
C19_Witness ==
    /\ iter = 2
    /\ pc = "ask"
    /\ dl.called
    /\ ~dl.ok
    /\ it.lookups = 1
    /\ it.downloads = 1

\* C20: an iteration has reported 'Download completed successfully!' only
\* if its download was made and succeeded.
C20_SuccessOnlyIfDownloaded ==
    it.success_reported => (dl.called /\ dl.ok)

\* C21: when the download was made for an audio-only target, with the
\* expression the selection returned for it, download_video set up the
\* audio-extraction post-processor and no MP4 merging.
C21_AudioBranchTaken ==
    (dl.called /\ sel.ret = "return" /\ StrIn(SAudioOnly, chosen_quality))
    => /\ dl.postprocessor = "FFmpegExtractAudio"
       /\ dl.merge = "None"

\* C22: every iteration that starts (the quality menu is up) reaches the
\* continue prompt; the prompt is left once, for the next iteration or for
\* the exit; and the loop ends only from the prompt, when the answer is
\* not 'Yes'.
C22_PromptReachedAndExit ==
    /\ (pc = "choose") ~> (pc = "ask")
    /\ [][pc = "ask" => pc' \in {"choose", "done"}]_vars
    /\ [][pc' = "done" => (pc = "ask" /\ iter' = iter)]_vars

\* a configuration whose numeric settings are within their limits
InLimits(cfg) ==
    /\ cfg.update_check_interval \in 1..168
    /\ cfg.max_retries \in 1..10
    /\ cfg.timeout \in 5..300

\* C23: the configuration _validate_config returns for the configuration
\* held has each numeric setting within its limits, equal to the given
\* value when that was within them, and is returned as it is when
\* validated again; what save_config wrote is such a configuration.
C23_Clamping ==
    LET validated == _validate_config(config)
    IN  /\ InLimits(validated)
        /\ config.update_check_interval \in 1..168
              => validated.update_check_interval = config.update_check_interval
        /\ config.max_retries \in 1..10 => validated.max_retries = config.max_retries
        /\ config.timeout \in 5..300 => validated.timeout = config.timeout
        /\ _validate_config(validated) = validated
        /\ pc = "validated" =>
              (InLimits(config_file) /\ _validate_config(config_file) = config_file)

\* C23 witness: a configuration with update_check_interval above 168 and,
\* before the validation clamped it in place, a timeout below 5 was saved:
\* the file holds 168 and 5.
C23_Witness ==
    /\ pc = "validated"
    /\ config.update_check_interval > 168
    /\ config_file.update_check_interval = 168
    /\ config_file.timeout = 5
    /\ config_file.max_retries = 10
====
